---- MODULE Spec2Model ----
(***************************************************************************)
(* Streaming transducer pipeline of des256/deli's debugging scripts:       *)
(* chunking of the audio, the encoder call with its cache threaded from    *)
(* chunk to chunk, and the greedy decode loop around the decoder-joint     *)
(* call, as written in verify_streaming.py, verify_nemo_features.py,       *)
(* debug_features2.py and debug_decode.py.                                 *)
(*                                                                         *)
(* The encoder and the decoder-joint network are external: a call returns  *)
(* any value of its (bounded) range.  Tensors are abstract values; the     *)
(* all-zero tensor is the value 0.                                         *)
(***************************************************************************)
EXTENDS Integers, Sequences, FiniteSets, TLC

\* ------------------------------------------------------------ constants
REQUIRED_SAMPLE_RATE == 16000
WINDOW_SIZE_MS == 25
HOP_SIZE_MS == 10
BLANK_ID == 1024
VOCAB_SIZE == 1025
\* PRE_EMPHASIS = 0.97, in hundredths.
PRE_EMPHASIS == 97
ChunkSamples25 == 40000
ChunkFramesNemo == 98
MinChunk25 == 400
NumScales == 7

\* ------------------------------------------------------------ bounds
\* Largest per-frame symbol bound k the model draws.  The scripts fix
\* MAX_SYMBOLS_PER_STEP = 10 (max_sym = 10 in debug_decode); the loops use it
\* only as range(k), so the model draws k from 1..MaxSym.
MaxSym == 2
\* Largest number of encoded frames one encoder call returns.
MaxEncFrames == 2
\* Non-blank token ids the decoder stub may predict are 0..MaxTokenId.
MaxTokenId == 1
\* Feature extraction alone is given every length 0..MaxFeatLen.
MaxFeatLen == 900
\* Bands of the filterbank (num_bins) and highest FFT bin of a band boundary.
NumBands == 3
MaxBin == 4
\* The values of the features are modelled on a window of FxWindow samples
\* moved by FxHop samples, for signals of up to MaxPcmLen samples.
FxWindow == 2
FxHop == 1
MaxPcmLen == 4

\* ------------------------------------------------------------ helpers
Min(a, b) == IF a < b THEN a ELSE b

Max(a, b) == IF a > b THEN a ELSE b

IsPrefix(s, t) == Len(s) <= Len(t) /\ SubSeq(t, 1, Len(s)) = s

window_size == (WINDOW_SIZE_MS * REQUIRED_SAMPLE_RATE) \div 1000

hop_size == (HOP_SIZE_MS * REQUIRED_SAMPLE_RATE) \div 1000

\* As NumFrames, with a partial trailing frame counted.
NumFramesCeil(n) == (n - window_size + hop_size - 1) \div hop_size + 1

\* num_frames of a signal of n samples (floor division, as Python's //).
NumFrames(n) == (n - window_size) \div hop_size + 1

\* Abstract tensor values; 0 is the all-zero tensor.
TensorVals == {0, 1}

TokenIds == 0..MaxTokenId

ZeroCache == [channel |-> 0, time |-> 0, len |-> 0]

CacheVals == [channel : TensorVals, time : TensorVals, len : TensorVals]

OnesCache == [channel |-> 1, time |-> 1, len |-> 1]

\* The behaviours of the two external models are explored in two families.
\* In "decoder" the decoder-joint stub returns any of StatePairs, and at symbol step
\* j of frame t predicts either blank or the token id TokAt(t, j); the encoder
\* returns a fixed non-zero cache.  In "encoder" the encoder returns any
\* cache and the decoder-joint stub is a fixed one, which emits one token on
\* every even frame.  In both, the encoder returns any number of frames.
\* In "fixed" both are functions of their inputs: the encoder returns one
\* encoded frame for every full second of feature frames it is given, and the
\* decoder-joint stub emits one token on every frame.  In "faulty" the
\* decoder-joint call returns any logits vector, well-formed or not.  "live"
\* is "decoder" with the calls and frames of a run counted.
Envs == {"decoder", "encoder"}

TokAt(t, j) == (t + j) % (MaxTokenId + 1)

\* What one encoder call may return: the number of encoded frames and the
\* three next-cache tensors.  The runs with failing calls need one frame.
EncoderOutputs(e, nf) ==
  IF e = "fixed"
    THEN {[frames |-> nf \div NumFrames(REQUIRED_SAMPLE_RATE), cache |-> OnesCache]}
    ELSE [frames : IF e = "faulty" THEN 0..1 ELSE 0..MaxEncFrames,
          cache : IF e = "encoder" THEN CacheVals ELSE {OnesCache}]

\* The pairs (output_states_1, output_states_2) a decoder-joint call may
\* return: never the all-zero pair, so that a returned pair is told from the
\* initial one, and with two different components.
StatePairs == {st \in TensorVals \X TensorVals : st[1] # st[2]}

\* A logits vector is kept by its number of elements n and its values v at
\* the indices LogitIdx: the token ids, BLANK_ID and the first index past the
\* vocabulary.  Every other element is lower than all of these; v is 0 at the
\* indices the vector does not have.
LogitIdx == TokenIds \cup {BLANK_ID, VOCAB_SIZE}

LogitVals == {0, 1}

\* Numbers of elements: none, the token ids only, and one more than VOCAB_SIZE.
LogitLens == {0, MaxTokenId + 1, VOCAB_SIZE + 1}

AllLogits ==
  {l \in [n : LogitLens, v : [LogitIdx -> LogitVals]] :
     \A i \in LogitIdx : i >= l.n => l.v[i] = 0}

\* The well-formed logits whose only maximum is at index p.
OneHot(p) ==
  [n |-> VOCAB_SIZE + 1, v |-> [i \in LogitIdx |-> IF i = p THEN 1 ELSE 0]]

\* What one decoder-joint call may return: its logits and the two output
\* states.
DecoderOutputs(e, t, j) ==
  CASE e \in {"decoder", "live"} ->
         [logits : {OneHot(TokAt(t, j)), OneHot(BLANK_ID)}, st : StatePairs]
    [] e = "faulty" -> [logits : AllLogits, st : {<<1, 0>>}]
    [] OTHER ->
         {IF (e = "fixed" \/ t % 2 = 0) /\ j = 0
            THEN [logits |-> OneHot(TokAt(t, j)), st |-> <<1, 0>>]
            ELSE [logits |-> OneHot(BLANK_ID), st |-> <<0, 1>>]}

\* Audio lengths (samples) and NeMo feature-frame counts the runs are given:
\* around one window and around one and two chunks of the run.
AudioLens == {0, 1, 399, 400, 16000, 16001, 16400}

AudioLens25 == {40001, 40400}

\* Signal lengths given to feature extraction alone.
FeatLens == (0..MaxFeatLen) \cup AudioLens

NemoFrameCounts == {0, 1, 98, 99}

Progs == {"verify_streaming", "verify_nemo_features", "debug_features2", "debug_decode"}

FirstPhase(p) ==
  CASE p = "verify_streaming" -> "vs_1s"
    [] p = "verify_nemo_features" -> "nemo_t1"
    [] p = "debug_features2" -> "df2_t1"
    [] OTHER -> "dd_scale"

ChunkedPhases == {"vs_1s", "vs_25s", "nemo_t2", "df2_t2"}

WholePhases == {"vs_batch", "nemo_t1", "df2_t1", "dd_scale"}

VARIABLES prog, env, phase, pc, pcm_len, nemo_num_frames, max_sym, scale_idx,
          offset, chunk_idx, cache, state1, state2, last_token,
          enc_out_frames, frame_idx, sym_step, chunk_tokens, all_tokens,
          num_frames, dec, chunks, enc_calls, enc_in, enc_ret,
          end_state, frame_calls, frame_emits, done_frame, run_emits,
          run_tokens, bin_points, filters, fb_report,
          pcm, do_normalize, features, feat_writes, feat_prev,
          run_calls, run_frames, enc_aux, chunk_samples, feat_frames, frames

\* The program's own variables.
progVars == <<prog, env, phase, pc, pcm_len, nemo_num_frames, max_sym, scale_idx,
              offset, chunk_idx, cache, state1, state2, last_token,
              enc_out_frames, frame_idx, sym_step, chunk_tokens, all_tokens,
              num_frames>>

\* Records of what the program did, kept for the properties below.
\*   dec         the decoder-joint call made by the step just taken: its
\*               place, inputs (targets, input_states_1/2) and outputs
\*               (NoCall when the step made none)
\*   enc_in      the cache passed to the encoder by the step just taken
\*               (NoCall when the step made no encoder call)
\*   enc_aux     the other inputs of that encoder call: the length and the
\*               speaker-target vectors (NoCall when the step made no call)
\*   enc_ret     the cache returned by the run's last encoder call
\*   enc_calls   number of encoder calls of the run
\*   chunks      the chunks handed to feature extraction in the run
\*   end_state   the decoder state at the end of the previous chunk
\*   frame_calls, frame_emits   decoder-joint calls and emissions so far on
\*               the current frame; done_frame: their totals for the frame
\*               finished last; run_emits: emissions of the run so far
\*   run_tokens  the token sequences of the script's finished runs (kept in
\*               the "fixed" environment, where runs are compared)
logVars == <<dec, chunks, enc_calls, enc_in, enc_aux, enc_ret,
             end_state, frame_calls, frame_emits, done_frame, run_emits,
             run_tokens>>

\* create_mel_filterbank: the FFT bin boundaries of the bands (bin_points),
\* the filters it returns and the configuration errors it reports.
fbVars == <<bin_points, filters, fb_report>>

\* Feature extraction with its values: the samples (pcm) and do_normalize of
\* the call made last, the features it returned, how often it wrote each
\* element of the flat array (feat_writes), and the call before it (feat_prev).
fxVars == <<pcm, do_normalize, features, feat_writes, feat_prev>>

\* Totals of a run, counted in the "live" environment: the decoder-joint calls
\* made (run_calls) and the encoded frames the encoder calls returned
\* (run_frames).
cntVars == <<run_calls, run_frames>>

\* The total n after k more, in the environment that counts.
Counted(n, k) == IF env = "live" THEN n + k ELSE n

\* Frame accounting: the chunk size of a chunked run whose frames are counted
\* (chunk_samples), the feature frames its chunks produced so far
\* (feat_frames), and the sample ranges of the frames of the feature-extraction
\* call made last (frames).
frVars == <<chunk_samples, feat_frames, frames>>

vars == <<progVars, logVars, fbVars, fxVars, cntVars, frVars>>

NoCall == [valid |-> FALSE]

NoFrame == [valid |-> FALSE]

NoState == [valid |-> FALSE]

InitPc(ph) ==
  CASE ph \in ChunkedPhases -> "chunk_loop"
    [] ph = "features" -> "feat_call"
    [] ph = "frames" -> "fr_loop"
    [] ph = "extract" -> "fx_call"
    [] ph = "filterbank" -> "fb_call"
    [] OTHER -> "whole_start"

\* ------------------------------------------------------------ per-run parameters
\* As ChunkSize, with the offset never moving on.
ChunkSizeZero(ph) == 0

\* chunk_samples of a chunked run (chunk_frames for verify_nemo_features).
ChunkSize(ph) ==
  CASE ph = "vs_1s" -> REQUIRED_SAMPLE_RATE
    [] ph = "vs_25s" -> ChunkSamples25
    [] ph = "df2_t2" -> REQUIRED_SAMPLE_RATE
    [] OTHER -> ChunkFramesNemo

\* Length of the run's input: samples, or feature frames for nemo_t2.
InputLen == IF phase \in {"nemo_t1", "nemo_t2"} THEN nemo_num_frames ELSE pcm_len

\* len(chunk) of the chunk at the current offset: pcm[offset:end].
ChunkLen == Min(offset + ChunkSize(phase), InputLen) - offset

\* As BreaksOnShort, with no run leaving its loop on a short chunk.
BreaksOnShortNever(ph, n) == FALSE

\* The runs that leave the chunk loop when the chunk is shorter than a window.
BreaksOnShort(ph, n) ==
  \/ ph = "vs_25s" /\ n < MinChunk25
  \/ ph = "df2_t2" /\ n < window_size

\* As PaddedLen, with the NeMo feature slices padded as well.
PaddedLenAlways(ph, n) == Max(n, ChunkSize(ph))

\* As PaddedLen, without the padding.
PaddedLenNone(ph, n) == n

\* len(chunk) after np.pad; the NeMo feature slices are not padded.
PaddedLen(ph, n) == IF ph = "nemo_t2" THEN n ELSE Max(n, ChunkSize(ph))

\* Number of feature frames handed to the encoder for a chunk of n samples
\* (n feature frames for nemo_t2, whose input already is features).
FeatureFrames(ph, n) == IF ph \in {"nemo_t1", "nemo_t2"} THEN n ELSE NumFrames(n)

\* As ResetsDecoder, with every chunked run starting each chunk from zero.
ResetsDecoderEveryChunk(ph) == TRUE

\* greedy_decode of debug_features2 starts from zero states at every call.
ResetsDecoder(ph) == ph = "df2_t2"

\* As InsufficientAudio, rejecting the empty input only.
InsufficientAudioEmptyOnly(n) == n = 0

\* compute_features_rust_style raises ValueError on fewer samples than one
\* window.
InsufficientAudio(n) == n < window_size

\* Feature extraction of the whole input failing before the encoder is called.
FeatureError(ph, n) ==
  CASE ph = "vs_batch" -> InsufficientAudio(n)
    [] ph \in {"df2_t1", "dd_scale"} -> n = 0 \/ NumFrames(n) < 0
    [] OTHER -> FALSE

\* As ThreadCache, with the valid length of the old cache kept.
ThreadCacheKeepLen(old, returned) ==
  [channel |-> returned.channel, time |-> returned.time, len |-> old.len]

\* The cache passed to the next encoder call, given the one passed to this
\* call and the one it returned: the three tensors are rebound together.
ThreadCache(old, returned) ==
  [channel |-> returned.channel, time |-> returned.time, len |-> returned.len]

\* The run that follows a finished run of the same script ("done": none).
NextPhaseOf(ph, si) ==
  CASE ph = "vs_1s" -> "vs_25s"
    [] ph = "vs_25s" -> "vs_batch"
    [] ph = "nemo_t1" -> "nemo_t2"
    [] ph = "df2_t1" -> "df2_t2"
    [] ph = "dd_scale" /\ si + 1 < NumScales -> "dd_scale"
    [] OTHER -> "done"

\* As RunStart, with the values the run before left.
RunStartCarried ==
  [cache |-> cache, s1 |-> state1, s2 |-> state2, tok |-> last_token]

\* The cache, decoder states and last_token a run of a script is started with.
RunStart ==
  [cache |-> ZeroCache, s1 |-> 0, s2 |-> 0, tok |-> BLANK_ID]

\* ------------------------------------------------------------ decode step
\* As CommitState, without the rollback on blank.
CommitStateNoRollback(save, new, pred) == new

\* As CommitState, with an all-zero output state not taken over.
CommitStateSkipZero(save, new, pred) ==
  IF pred = BLANK_ID \/ new = 0 THEN save ELSE new

\* state1/state2 after handling a call: the saved copy on blank, else the
\* call's output state.
CommitState(save, new, pred) == IF pred = BLANK_ID THEN save ELSE new

\* The predicted index recorded for a call whose argmax raised.
NoPred == 0 - 1

\* As Considered, without the slice to VOCAB_SIZE elements.
ConsideredAll(l) == {i \in LogitIdx : i < l.n}

\* The indices of logits.flatten()[:VOCAB_SIZE] among LogitIdx.
Considered(l) == {i \in LogitIdx : i < Min(l.n, VOCAB_SIZE)}

\* As Argmax, with the last of the maxima taken.
ArgmaxLast(l) ==
  LET c == Considered(l) IN
  CHOOSE i \in c : \A j \in c : l.v[j] < l.v[i] \/ (l.v[j] = l.v[i] /\ j <= i)

\* int(np.argmax(logits.flatten()[:VOCAB_SIZE])): the first of the maxima.
Argmax(l) ==
  LET c == Considered(l) IN
  CHOOSE i \in c : \A j \in c : l.v[j] < l.v[i] \/ (l.v[j] = l.v[i] /\ i <= j)

\* As NextLastToken, with last_token never updated.
NextLastTokenKeep(last, pred) == last

\* As NextLastToken, with a blank prediction clearing last_token.
NextLastTokenResetOnBlank(last, pred) == pred

\* last_token = predicted on a non-blank prediction only.
NextLastToken(last, pred) == IF pred = BLANK_ID THEN last ELSE pred

\* As Emit, with a token equal to the previous one dropped.
EmitCollapse(toks, pred) ==
  IF pred = BLANK_ID \/ (toks # <<>> /\ toks[Len(toks)] = pred)
    THEN toks
    ELSE Append(toks, pred)

Emit(toks, pred) == IF pred = BLANK_ID THEN toks ELSE Append(toks, pred)

\* As JoinTokens, with the chunk's tokens put first.
JoinTokensPrepend(all, chunk) == chunk \o all

\* The stream's tokens after a chunk: decoded_text += chunk_text and
\* total_tokens += len(chunk_tokens) in verify_streaming (kept here as the
\* token ids), all_tokens.extend(...) in the other scripts.
JoinTokens(all, chunk) == all \o chunk

\* As FrameDone, with the loop running one iteration too many.
FrameDoneOneMore(step, pred, k) == pred = BLANK_ID \/ step >= k

\* As FrameDone, with the loop ended by a blank only.
FrameDoneBlankOnly(step, pred, k) == pred = BLANK_ID

\* As FrameDone, without the break on blank.
FrameDoneNoBreak(step, pred, k) == step + 1 >= k

\* The symbol loop of a frame ends on blank (break) or when range(k) is used up.
FrameDone(step, pred, k) == pred = BLANK_ID \/ step + 1 >= k

\* An argument that was not passed (Python's None).
None == [valid |-> FALSE]

\* np.zeros((1, n)): n elements, all of them zero.
Zeros(n) == [len |-> n, zero |-> TRUE]

\* As DefaultTargets, with the vector sized for a one-second chunk.
DefaultTargetsOneSecond(arg, nf) ==
  IF arg = None THEN Zeros(ChunkFramesNemo) ELSE arg

\* run_encoder's speaker-target argument: zeros of num_frames elements when
\* it was not passed.
DefaultTargets(arg, nf) == IF arg = None THEN Zeros(nf) ELSE arg

\* run_encoder(features, num_frames, ..., spk, bg): the length and the
\* speaker-target vectors it hands to the encoder session.
RunEncoder(nf, spk, bg) ==
  [valid |-> TRUE, length |-> nf,
   spk_targets |-> DefaultTargets(spk, nf),
   bg_spk_targets |-> DefaultTargets(bg, nf)]

\* The length and speaker-target inputs of a run's encoder call on nf feature
\* frames.  debug_features2 calls run_encoder without speaker targets,
\* debug_decode builds the zero vectors in place, and the encoder of
\* verify_streaming and verify_nemo_features takes no speaker targets.
EncoderFeed(ph, nf) ==
  CASE ph \in {"df2_t1", "df2_t2"} -> RunEncoder(nf, None, None)
    [] ph = "dd_scale" ->
         [valid |-> TRUE, length |-> nf,
          spk_targets |-> Zeros(nf), bg_spk_targets |-> Zeros(nf)]
    [] OTHER ->
         [valid |-> TRUE, length |-> nf,
          spk_targets |-> None, bg_spk_targets |-> None]

\* The locals of a script before its first run.
InitLocals ==
  /\ pc = InitPc(phase)
  /\ scale_idx = 0
  /\ offset = 0
  /\ chunk_idx = 0
  /\ cache = ZeroCache
  /\ state1 = 0
  /\ state2 = 0
  /\ last_token = BLANK_ID
  /\ enc_out_frames = 0
  /\ frame_idx = 0
  /\ sym_step = 0
  /\ chunk_tokens = <<>>
  /\ all_tokens = <<>>
  /\ num_frames = 0
  /\ dec = NoCall
  /\ chunks = <<>>
  /\ enc_calls = 0
  /\ enc_in = NoCall
  /\ enc_ret = ZeroCache
  /\ end_state = NoState
  /\ frame_calls = 0
  /\ frame_emits = 0
  /\ done_frame = NoFrame
  /\ run_emits = 0
  /\ run_tokens = <<>>
  /\ filters = <<>>
  /\ fb_report = {}
  /\ pcm = <<>>
  /\ do_normalize = FALSE
  /\ features = <<>>
  /\ feat_writes = <<>>
  /\ feat_prev = NoCall
  /\ run_calls = 0
  /\ run_frames = 0
  /\ enc_aux = NoCall
  /\ feat_frames = 0
  /\ frames = <<>>

\* A script starts at its first run.  verify_streaming's 2.5 s run is also
\* started directly, on audio longer than one 2.5 s chunk: the 1 s run before
\* it always completes, and lines 399-415 then set exactly this state.
Init ==
  /\ prog \in Progs
  /\ env \in Envs
  /\ \/ /\ phase = FirstPhase(prog)
        /\ IF prog = "verify_nemo_features"
             THEN pcm_len = 0 /\ nemo_num_frames \in NemoFrameCounts
             ELSE pcm_len \in AudioLens /\ nemo_num_frames = 0
     \/ /\ prog = "verify_streaming"
        /\ phase = "vs_25s"
        /\ pcm_len \in AudioLens25
        /\ nemo_num_frames = 0
  /\ max_sym \in 1..MaxSym
  /\ bin_points = <<>>
  /\ chunk_samples = 0
  /\ InitLocals

\* The scripts run from their start with the "fixed" encoder and decoder-joint
\* functions.
InitDet ==
  /\ prog \in Progs
  /\ env = "fixed"
  /\ phase = FirstPhase(prog)
  /\ IF prog = "verify_nemo_features"
       THEN pcm_len = 0 /\ nemo_num_frames \in NemoFrameCounts
       ELSE pcm_len \in AudioLens \cup AudioLens25 /\ nemo_num_frames = 0
  /\ max_sym \in 1..MaxSym
  /\ bin_points = <<>>
  /\ chunk_samples = 0
  /\ InitLocals

\* One iteration of the chunk loop up to the decode loops: slice and pad the
\* chunk, extract features, call the encoder with the current cache and
\* replace the cache by the returned one.
ChunkStep(eo) ==
  /\ pc = "chunk_loop"
  /\ offset < InputLen
  /\ ~BreaksOnShort(phase, ChunkLen)
  /\ num_frames' = FeatureFrames(phase, PaddedLen(phase, ChunkLen))
  /\ cache' = ThreadCache(cache, eo.cache)
  /\ enc_out_frames' = eo.frames
  /\ frame_idx' = 0
  /\ sym_step' = 0
  /\ chunk_tokens' = <<>>
  /\ IF ResetsDecoder(phase)
       THEN state1' = 0 /\ state2' = 0 /\ last_token' = BLANK_ID
       ELSE UNCHANGED <<state1, state2, last_token>>
  /\ pc' = "decode"
  /\ chunks' = Append(chunks, [lo |-> offset, hi |-> offset + ChunkLen,
                               len |-> PaddedLen(phase, ChunkLen)])
  /\ enc_calls' = enc_calls + 1
  /\ enc_in' = cache
  /\ enc_aux' = EncoderFeed(phase, num_frames')
  /\ enc_ret' = eo.cache
  /\ frame_calls' = 0
  /\ frame_emits' = 0
  /\ UNCHANGED <<prog, env, phase, pcm_len, nemo_num_frames, max_sym, scale_idx,
                 offset, chunk_idx, all_tokens, end_state, done_frame,
                 run_emits, run_tokens>>
  /\ dec' = NoCall
  /\ UNCHANGED fbVars
  /\ UNCHANGED fxVars
  /\ UNCHANGED frVars
  /\ run_frames' = Counted(run_frames, eo.frames)
  /\ UNCHANGED run_calls

\* The 2.5 s run and debug_features2 TEST 2 break out of the chunk loop on a
\* chunk shorter than one window.
ChunkBreak ==
  /\ pc = "chunk_loop"
  /\ offset < InputLen
  /\ BreaksOnShort(phase, ChunkLen)
  /\ pc' = "after_loop"
  /\ UNCHANGED <<prog, env, phase, pcm_len, nemo_num_frames, max_sym, scale_idx,
                 offset, chunk_idx, cache, state1, state2, last_token,
                 enc_out_frames, frame_idx, sym_step, chunk_tokens, all_tokens,
                 num_frames, chunks, enc_calls, enc_ret, end_state,
                 frame_calls, frame_emits, done_frame, run_emits, run_tokens>>
  /\ dec' = NoCall
  /\ enc_in' = NoCall
  /\ enc_aux' = NoCall
  /\ UNCHANGED fbVars
  /\ UNCHANGED fxVars
  /\ UNCHANGED frVars
  /\ UNCHANGED cntVars

\* The chunk loop's condition offset < len(pcm) is false.
LoopExit ==
  /\ pc = "chunk_loop"
  /\ offset >= InputLen
  /\ pc' = "after_loop"
  /\ UNCHANGED <<prog, env, phase, pcm_len, nemo_num_frames, max_sym, scale_idx,
                 offset, chunk_idx, cache, state1, state2, last_token,
                 enc_out_frames, frame_idx, sym_step, chunk_tokens, all_tokens,
                 num_frames, chunks, enc_calls, enc_ret, end_state,
                 frame_calls, frame_emits, done_frame, run_emits, run_tokens>>
  /\ dec' = NoCall
  /\ enc_in' = NoCall
  /\ enc_aux' = NoCall
  /\ UNCHANGED fbVars
  /\ UNCHANGED fxVars
  /\ UNCHANGED frVars
  /\ UNCHANGED cntVars

\* A run over the whole input (batch run, Test 1, greedy_decode_full): extract
\* features of the whole input, which may fail, and call the encoder with the
\* zero cache; the returned cache is not kept.  debug_decode calls the encoder
\* once, before its first decode.
WholeStart(eo) ==
  /\ pc = "whole_start"
  /\ IF FeatureError(phase, InputLen)
       THEN /\ pc' = "error"
            /\ enc_in' = NoCall
            /\ enc_aux' = NoCall
            /\ UNCHANGED <<num_frames, enc_out_frames, enc_calls, enc_ret,
                           frame_idx, sym_step, frame_calls, frame_emits>>
       ELSE /\ pc' = "decode"
            /\ num_frames' = FeatureFrames(phase, InputLen)
            /\ enc_out_frames' = eo.frames
            /\ enc_calls' = enc_calls + 1
            /\ enc_in' = cache
            /\ enc_aux' = EncoderFeed(phase, num_frames')
            /\ enc_ret' = eo.cache
            /\ frame_idx' = 0
            /\ sym_step' = 0
            /\ frame_calls' = 0
            /\ frame_emits' = 0
  /\ UNCHANGED <<prog, env, phase, pcm_len, nemo_num_frames, max_sym, scale_idx,
                 offset, chunk_idx, cache, state1, state2, last_token,
                 chunk_tokens, all_tokens, chunks, end_state, done_frame,
                 run_emits, run_tokens>>
  /\ dec' = NoCall
  /\ UNCHANGED fbVars
  /\ UNCHANGED fxVars
  /\ UNCHANGED frVars
  /\ run_frames' = IF FeatureError(phase, InputLen) THEN run_frames
                   ELSE Counted(run_frames, eo.frames)
  /\ UNCHANGED run_calls

\* One iteration of the symbol loop: one decoder-joint call on the current
\* encoded frame with (last_token, state1, state2), the argmax, and then
\* either the rollback and break (blank) or the commit.
DecodeStep(out) ==
  /\ pc = "decode"
  /\ frame_idx < enc_out_frames
  /\ IF Considered(out.logits) = {}
       THEN \* np.argmax of an empty slice raises ValueError
            /\ pc' = "error"
            /\ dec' = [valid |-> TRUE, chunk |-> chunk_idx, frame |-> frame_idx,
                       step |-> sym_step, in_tok |-> last_token,
                       in_s1 |-> state1, in_s2 |-> state2,
                       logits |-> out.logits, pred |-> NoPred,
                       out_s1 |-> out.st[1], out_s2 |-> out.st[2]]
            /\ UNCHANGED <<state1, state2, last_token, chunk_tokens, all_tokens,
                           frame_idx, sym_step, frame_calls, frame_emits,
                           done_frame, run_emits>>
       ELSE \E pred \in {Argmax(out.logits)} :
            LET fin == FrameDone(sym_step, pred, max_sym)
                emitted == pred # BLANK_ID
            IN
            /\ pc' = pc
            /\ state1' = CommitState(state1, out.st[1], pred)
            /\ state2' = CommitState(state2, out.st[2], pred)
            /\ last_token' = NextLastToken(last_token, pred)
            /\ IF phase \in ChunkedPhases
                 THEN /\ chunk_tokens' = Emit(chunk_tokens, pred)
                      /\ UNCHANGED all_tokens
                 ELSE /\ all_tokens' = Emit(all_tokens, pred)
                      /\ UNCHANGED chunk_tokens
            /\ frame_idx' = IF fin THEN frame_idx + 1 ELSE frame_idx
            /\ sym_step' = IF fin THEN 0 ELSE sym_step + 1
            /\ dec' = [valid |-> TRUE, chunk |-> chunk_idx, frame |-> frame_idx,
                       step |-> sym_step, in_tok |-> last_token,
                       in_s1 |-> state1, in_s2 |-> state2,
                       logits |-> out.logits, pred |-> pred,
                       out_s1 |-> out.st[1], out_s2 |-> out.st[2]]
            /\ frame_calls' = IF fin THEN 0 ELSE frame_calls + 1
            /\ frame_emits' = IF fin THEN 0
                              ELSE frame_emits + (IF emitted THEN 1 ELSE 0)
            /\ done_frame' = IF fin
                               THEN [valid |-> TRUE, chunk |-> chunk_idx,
                                     frame |-> frame_idx,
                                     calls |-> frame_calls + 1,
                                     emits |-> frame_emits + (IF emitted THEN 1 ELSE 0),
                                     blank |-> ~emitted]
                               ELSE done_frame
            /\ run_emits' = run_emits + (IF emitted THEN 1 ELSE 0)
  /\ UNCHANGED <<prog, env, phase, pcm_len, nemo_num_frames, max_sym, scale_idx,
                 offset, chunk_idx, cache, enc_out_frames, num_frames, chunks,
                 enc_calls, enc_ret, end_state, run_tokens>>
  /\ enc_in' = NoCall
  /\ enc_aux' = NoCall
  /\ UNCHANGED fbVars
  /\ UNCHANGED fxVars
  /\ UNCHANGED frVars
  /\ run_calls' = Counted(run_calls, 1)
  /\ UNCHANGED run_frames

\* The rest of a chunk-loop iteration, after the frame loop: the chunk's tokens
\* join the stream's and the offset moves on by chunk_samples (by
\* frames_in_chunk in verify_nemo_features).
ChunkEnd ==
  /\ pc = "decode"
  /\ phase \in ChunkedPhases
  /\ frame_idx >= enc_out_frames
  /\ all_tokens' = JoinTokens(all_tokens, chunk_tokens)
  /\ chunk_idx' = chunk_idx + 1
  /\ offset' = offset + (IF phase = "nemo_t2" THEN ChunkLen ELSE ChunkSize(phase))
  /\ pc' = "chunk_loop"
  /\ end_state' = [valid |-> TRUE, chunk |-> chunk_idx, s1 |-> state1,
                   s2 |-> state2, tok |-> last_token]
  /\ UNCHANGED <<prog, env, phase, pcm_len, nemo_num_frames, max_sym, scale_idx,
                 cache, state1, state2, last_token, enc_out_frames, frame_idx,
                 sym_step, chunk_tokens, num_frames, chunks, enc_calls,
                 enc_ret, frame_calls, frame_emits,
                 done_frame, run_emits, run_tokens>>
  /\ dec' = NoCall
  /\ enc_in' = NoCall
  /\ enc_aux' = NoCall
  /\ UNCHANGED fbVars
  /\ UNCHANGED fxVars
  /\ UNCHANGED frVars
  /\ UNCHANGED cntVars

\* The frame loop of a run over the whole input is over.
WholeEnd ==
  /\ pc = "decode"
  /\ phase \in WholePhases
  /\ frame_idx >= enc_out_frames
  /\ pc' = "after_loop"
  /\ UNCHANGED <<prog, env, phase, pcm_len, nemo_num_frames, max_sym, scale_idx,
                 offset, chunk_idx, cache, state1, state2, last_token,
                 enc_out_frames, frame_idx, sym_step, chunk_tokens, all_tokens,
                 num_frames, chunks, enc_calls, enc_ret, end_state,
                 frame_calls, frame_emits, done_frame, run_emits, run_tokens>>
  /\ dec' = NoCall
  /\ enc_in' = NoCall
  /\ enc_aux' = NoCall
  /\ UNCHANGED fbVars
  /\ UNCHANGED fxVars
  /\ UNCHANGED frVars
  /\ UNCHANGED cntVars

\* After a run: the next run of the script starts from a zero cache, zero
\* decoder states, last_token = BLANK_ID and no tokens (locals that the next
\* run overwrites before reading are cleared with them), or the script ends.
\* debug_decode decodes the same encoder output again (scaled).
NextPhase ==
  /\ pc = "after_loop"
  /\ LET np == NextPhaseOf(phase, scale_idx) IN
     /\ phase' = np
     /\ pc' = IF np = "done" THEN "done"
              ELSE IF np = "dd_scale" THEN "decode" ELSE InitPc(np)
     /\ scale_idx' = IF np = "dd_scale" THEN scale_idx + 1 ELSE scale_idx
     /\ enc_out_frames' = IF np = "dd_scale" THEN enc_out_frames ELSE 0
     /\ num_frames' = IF np = "dd_scale" THEN num_frames ELSE 0
  /\ offset' = 0
  /\ chunk_idx' = 0
  /\ cache' = RunStart.cache
  /\ state1' = RunStart.s1
  /\ state2' = RunStart.s2
  /\ last_token' = RunStart.tok
  /\ frame_idx' = 0
  /\ sym_step' = 0
  /\ chunk_tokens' = <<>>
  /\ all_tokens' = <<>>
  /\ dec' = NoCall
  /\ chunks' = <<>>
  /\ enc_calls' = 0
  /\ enc_in' = NoCall
  /\ enc_aux' = NoCall
  /\ enc_ret' = ZeroCache
  /\ end_state' = NoState
  /\ frame_calls' = 0
  /\ frame_emits' = 0
  /\ done_frame' = NoFrame
  /\ run_emits' = 0
  /\ run_tokens' = IF env = "fixed"
                    THEN Append(run_tokens, [phase |-> phase, tokens |-> all_tokens])
                    ELSE run_tokens
  /\ UNCHANGED <<prog, env, pcm_len, nemo_num_frames, max_sym>>
  /\ UNCHANGED fbVars
  /\ UNCHANGED fxVars
  /\ UNCHANGED frVars
  /\ run_calls' = 0
  /\ run_frames' = IF phase' = "dd_scale" THEN run_frames ELSE 0

Next == \/ \E eo \in EncoderOutputs(env, FeatureFrames(phase, PaddedLen(phase, ChunkLen))) :
             ChunkStep(eo)
        \/ ChunkBreak
        \/ LoopExit
        \/ \E eo \in EncoderOutputs(env, FeatureFrames(phase, InputLen)) : WholeStart(eo)
        \/ \E out \in DecoderOutputs(env, frame_idx, sym_step) : DecodeStep(out)
        \/ ChunkEnd
        \/ WholeEnd
        \/ NextPhase

Spec == Init /\ [][Next]_vars

\* The scripts with deterministic encoder and decoder-joint functions.
SpecDet == InitDet /\ [][Next]_vars

\* ------------------------------------------------------------ failing calls
\* Audio for the runs with failing calls: less than a window, and one chunk.
AudioLensFault == {1, 16000}

\* verify_streaming with models whose calls may raise and whose decoder-joint
\* logits may be malformed.
InitFault ==
  /\ prog = "verify_streaming"
  /\ env = "faulty"
  /\ phase = FirstPhase(prog)
  /\ pcm_len \in AudioLensFault
  /\ nemo_num_frames = 0
  /\ max_sym \in 1..MaxSym
  /\ bin_points = <<>>
  /\ chunk_samples = 0
  /\ InitLocals

\* enc_sess.run raises: the exception leaves main.  The chunk was sliced and
\* its features computed; the cache was not rebound.
EncoderFail ==
  /\ pc \in {"chunk_loop", "whole_start"}
  /\ IF pc = "chunk_loop"
       THEN /\ offset < InputLen
            /\ ~BreaksOnShort(phase, ChunkLen)
            /\ num_frames' = FeatureFrames(phase, PaddedLen(phase, ChunkLen))
            /\ chunks' = Append(chunks, [lo |-> offset, hi |-> offset + ChunkLen,
                                         len |-> PaddedLen(phase, ChunkLen)])
       ELSE /\ ~FeatureError(phase, InputLen)
            /\ num_frames' = FeatureFrames(phase, InputLen)
            /\ UNCHANGED chunks
  /\ pc' = "error"
  /\ enc_calls' = enc_calls + 1
  /\ enc_in' = cache
  /\ enc_aux' = EncoderFeed(phase, num_frames')
  /\ dec' = NoCall
  /\ UNCHANGED <<prog, env, phase, pcm_len, nemo_num_frames, max_sym, scale_idx,
                 offset, chunk_idx, cache, state1, state2, last_token,
                 enc_out_frames, frame_idx, sym_step, chunk_tokens, all_tokens,
                 enc_ret, end_state, frame_calls, frame_emits, done_frame,
                 run_emits, run_tokens>>
  /\ UNCHANGED fbVars
  /\ UNCHANGED fxVars
  /\ UNCHANGED frVars
  /\ UNCHANGED cntVars

\* dec_sess.run raises: the exception leaves main, with the cache rebound by
\* this chunk's encoder call and the decoder state as committed so far.
DecoderFail ==
  /\ pc = "decode"
  /\ frame_idx < enc_out_frames
  /\ pc' = "error"
  /\ dec' = NoCall
  /\ enc_in' = NoCall
  /\ enc_aux' = NoCall
  /\ UNCHANGED <<prog, env, phase, pcm_len, nemo_num_frames, max_sym, scale_idx,
                 offset, chunk_idx, cache, state1, state2, last_token,
                 enc_out_frames, frame_idx, sym_step, chunk_tokens, all_tokens,
                 num_frames, chunks, enc_calls, enc_ret, end_state,
                 frame_calls, frame_emits, done_frame, run_emits, run_tokens>>
  /\ UNCHANGED fbVars
  /\ UNCHANGED fxVars
  /\ UNCHANGED frVars
  /\ UNCHANGED cntVars

NextFault == Next \/ EncoderFail \/ DecoderFail

SpecFault == InitFault /\ [][NextFault]_vars

\* ------------------------------------------------------------ feature extraction
\* compute_features_rust_style called on a signal of pcm_len samples.
InitFeat ==
  /\ prog = "verify_streaming"
  /\ env = "fixed"
  /\ phase = "features"
  /\ pcm_len \in FeatLens
  /\ nemo_num_frames = 0
  /\ max_sym = MaxSym
  /\ bin_points = <<>>
  /\ chunk_samples = 0
  /\ InitLocals

\* As FrameStart, with the frames counted from one.
FrameStartOneBased(f) == (f + 1) * hop_size

\* start of frame frame_idx.
FrameStart(f) == f * hop_size

\* end of the frame that starts at start.
FrameEnd(start) == start + window_size

\* len(x[start:end]) for x of n elements: a slice stops at the end of x.
SliceLength(n, start, end) == Max(Min(end, n) - Min(start, n), 0)

\* The samples signal[start:end] of frame f of a signal of n samples.
FrameRange(f, n) ==
  [start |-> FrameStart(f), end |-> FrameEnd(FrameStart(f)),
   len |-> SliceLength(n, FrameStart(f), FrameEnd(FrameStart(f)))]

\* The call: the length check, which raises before anything else is computed,
\* then num_frames and the features of num_frames frames, each from its own
\* range of samples.
ComputeFeatures ==
  /\ pc = "feat_call"
  /\ IF InsufficientAudio(pcm_len)
       THEN pc' = "error" /\ UNCHANGED num_frames
       ELSE /\ pc' = "feat_done"
            /\ num_frames' = NumFrames(pcm_len)
  /\ UNCHANGED <<prog, env, phase, pcm_len, nemo_num_frames, max_sym, scale_idx,
                 offset, chunk_idx, cache, state1, state2, last_token,
                 enc_out_frames, frame_idx, sym_step, chunk_tokens, all_tokens>>
  /\ frames' = IF InsufficientAudio(pcm_len) THEN frames
               ELSE [f \in 1..NumFrames(pcm_len) |-> FrameRange(f - 1, pcm_len)]
  /\ UNCHANGED <<chunk_samples, feat_frames>>
  /\ UNCHANGED logVars
  /\ UNCHANGED fbVars
  /\ UNCHANGED fxVars
  /\ UNCHANGED cntVars

NextFeat == ComputeFeatures

SpecFeat == InitFeat /\ [][NextFeat]_vars

\* ------------------------------------------------------------ frame accounting
\* The feature frames of a chunked run and of the batch run over the same
\* audio, for chunk sizes around one window up to MaxFeatLen and the scripts'
\* own (1 s and 2.5 s), on audio of up to MaxChunks chunks, whole or with
\* TailSamples more.
MaxChunks == 3

TailSamples == {0, 200}

ChunkSampleSizes ==
  ((window_size - 1)..MaxFeatLen) \cup {REQUIRED_SAMPLE_RATE, ChunkSamples25}

InitFrames ==
  /\ prog = "verify_streaming"
  /\ env = "fixed"
  /\ phase = "frames"
  /\ chunk_samples \in ChunkSampleSizes
  /\ \E n \in 1..MaxChunks, r \in TailSamples : pcm_len = n * chunk_samples + r
  /\ nemo_num_frames = 0
  /\ max_sym = MaxSym
  /\ bin_points = <<>>
  /\ InitLocals

\* As ChunkSlice, with each chunk reaching back over the samples the frames
\* of the previous chunk left unfinished.
ChunkSliceLookback(off, c, n) ==
  Min(off + c, n) - Max(off - (window_size - hop_size), 0)

\* len(pcm[offset:end]) with end = min(offset + chunk_samples, len(pcm)).
ChunkSlice(off, c, n) == Min(off + c, n) - off

\* One iteration of the chunk loop, as far as the frames go: slice, pad,
\* extract the chunk's features (which raises on less than one window), move
\* the offset on.
FramesChunk ==
  /\ pc = "fr_loop"
  /\ offset < pcm_len
  /\ \E padded \in {Max(ChunkSlice(offset, chunk_samples, pcm_len), chunk_samples)} :
       IF InsufficientAudio(padded)
         THEN /\ pc' = "error"
              /\ UNCHANGED <<num_frames, feat_frames, offset, chunk_idx>>
         ELSE /\ pc' = "fr_loop"
              /\ num_frames' = NumFrames(padded)
              /\ feat_frames' = feat_frames + NumFrames(padded)
              /\ offset' = offset + chunk_samples
              /\ chunk_idx' = chunk_idx + 1
  /\ UNCHANGED <<prog, env, phase, pcm_len, nemo_num_frames, max_sym, scale_idx,
                 cache, state1, state2, last_token,
                 enc_out_frames, frame_idx, sym_step, chunk_tokens, all_tokens>>
  /\ UNCHANGED <<chunk_samples, frames>>
  /\ UNCHANGED logVars
  /\ UNCHANGED fbVars
  /\ UNCHANGED fxVars
  /\ UNCHANGED cntVars

\* After the chunk loop, the batch run extracts the features of the whole
\* audio.
FramesBatch ==
  /\ pc = "fr_loop"
  /\ offset >= pcm_len
  /\ IF InsufficientAudio(pcm_len)
       THEN pc' = "error" /\ UNCHANGED num_frames
       ELSE pc' = "fr_done" /\ num_frames' = NumFrames(pcm_len)
  /\ UNCHANGED <<prog, env, phase, pcm_len, nemo_num_frames, max_sym, scale_idx,
                 offset, chunk_idx, cache, state1, state2, last_token,
                 enc_out_frames, frame_idx, sym_step, chunk_tokens, all_tokens>>
  /\ UNCHANGED frVars
  /\ UNCHANGED logVars
  /\ UNCHANGED fbVars
  /\ UNCHANGED fxVars
  /\ UNCHANGED cntVars

NextFrames == FramesChunk \/ FramesBatch

SpecFrames == InitFrames /\ [][NextFrames]_vars

\* ------------------------------------------------------------ properties
\* The frame of the decoder-joint call just made was finished by that call.
FrameJustDone ==
  /\ dec.valid
  /\ done_frame.valid
  /\ done_frame.chunk = dec.chunk
  /\ done_frame.frame = dec.frame
  /\ frame_calls = 0

\* C1: for every k = max_sym >= 1 and every behaviour of the decoder-joint
\* stub, at most k decoder-joint calls are made and at most k tokens emitted
\* for one encoded frame; a frame that ended without a blank prediction took
\* exactly k calls and emitted exactly k tokens, and the loop has moved to the
\* next frame.
C1_LoopBound ==
  /\ frame_calls < max_sym
  /\ frame_emits <= frame_calls
  /\ done_frame.valid =>
       /\ done_frame.calls <= max_sym
       /\ done_frame.emits <= max_sym
       /\ ~done_frame.blank =>
            /\ done_frame.calls = max_sym
            /\ done_frame.emits = max_sym
  /\ FrameJustDone => frame_idx = dec.frame + 1 /\ sym_step = 0

\* A frame ended after MaxSym non-blank predictions.
C1_Witness ==
  /\ FrameJustDone
  /\ ~done_frame.blank
  /\ max_sym = MaxSym
  /\ done_frame.emits = MaxSym

\* C2: a step whose decoder-joint call predicts BLANK_ID leaves state1 and
\* state2 as they were before the call, whatever states the call returned.
C2_BlankRollback ==
  [][dec'.valid /\ dec'.pred = BLANK_ID =>
       /\ state1' = state1
       /\ state2' = state2
       /\ dec'.in_s1 = state1
       /\ dec'.in_s2 = state2]_vars

\* A blank prediction whose returned states both differ from the (non-zero)
\* states kept.
C2_Witness ==
  /\ dec.valid
  /\ dec.pred = BLANK_ID
  /\ dec.out_s1 # state1
  /\ dec.out_s2 # state2
  /\ <<state1, state2>> # <<0, 0>>

\* The runs claim C3 names: the chunked runs of verify_streaming and Test 2
\* of verify_nemo_features.
InRun3 == phase \in {"vs_1s", "vs_25s", "nemo_t2"}

\* The decoder-joint call just made is the first of its chunk.
FirstCallOfChunk == dec.valid /\ dec.frame = 0 /\ dec.step = 0

\* The first decoder-joint call of chunk 0 takes zero states and BLANK_ID;
\* the first call of a later chunk takes the state left at the end of the
\* chunk before it.
StateCarried ==
  FirstCallOfChunk =>
    IF dec.chunk = 0
      THEN <<dec.in_s1, dec.in_s2, dec.in_tok>> = <<0, 0, BLANK_ID>>
      ELSE /\ end_state.valid
           /\ end_state.chunk = dec.chunk - 1
           /\ <<dec.in_s1, dec.in_s2, dec.in_tok>> =
                <<end_state.s1, end_state.s2, end_state.tok>>

\* C3: in the 1 s and 2.5 s runs of verify_streaming and in Test 2 of
\* verify_nemo_features the first decoder-joint call of chunk i+1 is given
\* exactly the state1, state2 and last_token committed at the end of chunk i;
\* only the first chunk starts from zeros and BLANK_ID.
C3_StateAcrossChunks == InRun3 => StateCarried

\* The first call of a second chunk takes over a non-zero state and a token.
C3_Witness ==
  /\ InRun3
  /\ FirstCallOfChunk
  /\ dec.chunk = 1
  /\ dec.in_tok # BLANK_ID
  /\ <<dec.in_s1, dec.in_s2>> # <<0, 0>>

\* C4: in TEST 2 of debug_features2 the first decoder-joint call of chunk i+1
\* is given exactly the state1, state2 and last_token left by the last call
\* of chunk i.
C4_Df2StateAcrossChunks == phase = "df2_t2" => StateCarried

\* C5: in every chunked run the first encoder call is given the zero cache
\* with valid length 0, every later call exactly the three tensors the call
\* before it returned, and after a call the cache is exactly the triple that
\* call returned.
C5_CacheThreading ==
  [][phase' \in ChunkedPhases /\ enc_in' # NoCall =>
       /\ enc_in' = (IF enc_calls = 0 THEN ZeroCache ELSE enc_ret)
       /\ enc_calls' = enc_calls + 1
       /\ cache' = enc_ret']_vars

\* A second encoder call of a chunked run is given a cache that is not zero
\* and whose valid length differs from the zero cache's.
C5_Witness ==
  /\ phase \in ChunkedPhases
  /\ enc_calls = 2
  /\ enc_in # NoCall
  /\ enc_in # ZeroCache
  /\ enc_in.len # 0
  /\ enc_in.channel # enc_in.len
  /\ cache # enc_in

\* C6: in the chunked runs over audio, when the chunk loop is over every
\* sample of non-empty audio lies in a chunk that went through feature
\* extraction and the encoder: no short remainder is dropped.
C6_NoChunkDropped ==
  phase \in {"vs_1s", "vs_25s", "df2_t2"} /\ pc = "after_loop" /\ pcm_len >= 1 =>
    /\ chunks # <<>>
    /\ chunks[Len(chunks)].hi = pcm_len
    /\ \A i \in 1..Len(chunks) :
         chunks[i].lo = (i - 1) * ChunkSize(phase)

\* The chunked runs and the whole-input run that process the same audio.
SameAudioRuns ==
  ({"vs_1s", "vs_25s"} \X {"vs_batch"}) \cup {<<"df2_t2", "df2_t1">>}

\* C7: with the same audio and the same deterministic encoder and
\* decoder-joint functions, the token sequence of a chunked run (1 s, 2.5 s,
\* TEST 2) equals the token sequence of the run over the whole audio (batch
\* run, TEST 1).
C7_BatchEqualsChunked ==
  \A i, j \in 1..Len(run_tokens) :
    <<run_tokens[i].phase, run_tokens[j].phase>> \in SameAudioRuns =>
      run_tokens[i].tokens = run_tokens[j].tokens

\* The tokens of the stream so far: the finished chunks' and the current one's.
StreamTokens ==
  IF phase \in ChunkedPhases /\ pc = "decode"
    THEN all_tokens \o chunk_tokens
    ELSE all_tokens

\* The place of the decode: the chunk and, inside the frame loop, the frame.
DecodePos == <<chunk_idx, IF pc = "decode" THEN frame_idx ELSE 0>>

PosLeq(a, b) == a[1] < b[1] \/ (a[1] = b[1] /\ a[2] <= b[2])

\* C8: within a run the stream's token sequence only grows at its end, by
\* exactly the token a non-blank call predicted, made at the current chunk and
\* frame; the place of the decode never moves back, so tokens stand in chunk
\* and frame order; nothing is removed, reordered or collapsed.
C8_AppendOnly ==
  [][phase' = phase /\ scale_idx' = scale_idx =>
       /\ IF dec'.valid /\ dec'.pred # BLANK_ID
            THEN StreamTokens' = Append(StreamTokens, dec'.pred)
            ELSE StreamTokens' = StreamTokens
       /\ dec'.valid => <<dec'.chunk, dec'.frame>> = DecodePos
       /\ chunk_idx' >= chunk_idx
       /\ pc' = "decode" => PosLeq(DecodePos, DecodePos')
       /\ Len(StreamTokens') = run_emits']_vars

\* In a second chunk, a stream with two different ids and one id twice.
C8_Witness ==
  /\ phase \in ChunkedPhases
  /\ pc = "decode"
  /\ chunk_idx = 1
  /\ all_tokens # <<>>
  /\ chunk_tokens # <<>>
  /\ \E i, j \in 1..Len(StreamTokens) : StreamTokens[i] # StreamTokens[j]
  /\ \E i, j \in 1..Len(StreamTokens) : i # j /\ StreamTokens[i] = StreamTokens[j]

\* C9: a call whose argmax p is not BLANK_ID commits in full: state1 and
\* state2 become the call's output states, last_token becomes p and p is
\* appended; if fewer than max_sym calls were made for the frame, the next
\* step is a decoder-joint call on the same frame with p and the committed
\* states as inputs.
C9_Commit ==
  [][/\ dec'.valid /\ dec'.pred # BLANK_ID =>
          /\ state1' = dec'.out_s1
          /\ state2' = dec'.out_s2
          /\ last_token' = dec'.pred
          /\ StreamTokens' = Append(StreamTokens, dec'.pred)
     /\ dec.valid /\ dec.pred # BLANK_ID /\ dec.step + 1 < max_sym =>
          /\ dec'.valid
          /\ <<dec'.chunk, dec'.frame, dec'.step>> =
               <<dec.chunk, dec.frame, dec.step + 1>>
          /\ <<dec'.in_tok, dec'.in_s1, dec'.in_s2>> =
               <<dec.pred, dec.out_s1, dec.out_s2>>]_vars

\* A second call on a frame, after a commit that changed both states.
C9_Witness ==
  /\ dec.valid
  /\ dec.step = 1
  /\ dec.pred # BLANK_ID
  /\ dec.in_tok # BLANK_ID
  /\ dec.in_tok # dec.pred
  /\ dec.out_s1 # dec.in_s1
  /\ dec.out_s2 # dec.in_s2

\* C10: a frame whose loop made max_sym calls without a blank raises no
\* error: the decode goes on with the next frame, all max_sym tokens are kept,
\* last_token is the last of them and state1/state2 are the states the last
\* call returned.
C10_Exhaustion ==
  FrameJustDone /\ ~done_frame.blank =>
    /\ pc = "decode"
    /\ frame_idx = dec.frame + 1
    /\ sym_step = 0
    /\ last_token = dec.pred
    /\ <<state1, state2>> = <<dec.out_s1, dec.out_s2>>
    /\ done_frame.emits = max_sym
    /\ Len(StreamTokens) = run_emits
    /\ Len(StreamTokens) >= max_sym
    /\ \A j \in 1..max_sym :
         StreamTokens[Len(StreamTokens) - max_sym + j] = TokAt(dec.frame, j - 1)

\* A frame used up MaxSym calls and another frame follows.
C10_Witness ==
  /\ FrameJustDone
  /\ ~done_frame.blank
  /\ max_sym = MaxSym
  /\ frame_idx < enc_out_frames
  /\ run_emits > MaxSym

\* C11: for a signal of at least window_size = 400 samples, with hop_size =
\* 160, feature extraction produces num_frames = (len - 400) // 160 + 1
\* frames: every frame's window lies inside the signal and no further whole
\* window does (no partial trailing frame); 400 samples give 1 frame and
\* 16000 samples give 98.
C11_NumFrames ==
  phase = "features" /\ pc = "feat_done" =>
    /\ window_size = 400
    /\ hop_size = 160
    /\ pcm_len >= 400
    /\ num_frames = (pcm_len - 400) \div 160 + 1
    /\ (num_frames - 1) * 160 + 400 <= pcm_len
    /\ num_frames * 160 + 400 > pcm_len
    /\ pcm_len = 400 => num_frames = 1
    /\ pcm_len = 16000 => num_frames = 98

\* One second of audio: 98 frames, the 80 trailing samples start no frame.
C11_Witness ==
  /\ phase = "features"
  /\ pc = "feat_done"
  /\ pcm_len = 16000
  /\ num_frames = 98
  /\ (pcm_len - window_size) % hop_size # 0

\* C12: compute_features_rust_style raises its error exactly on the signals
\* of fewer than window_size samples, the empty one included, and then has
\* computed nothing: no frame count and no features are returned.
C12_InsufficientAudio ==
  phase = "features" /\ pc # "feat_call" =>
    /\ pc = "error" <=> pcm_len < window_size
    /\ pc = "error" => num_frames = 0 /\ filters = <<>>
    /\ pcm_len = 0 => pc = "error"

\* A signal one sample short of a window is rejected.
C12_Witness ==
  /\ phase = "features"
  /\ pc = "error"
  /\ pcm_len = window_size - 1

\* The decoder state committed by the chunks before the current one.
CommittedBefore ==
  IF end_state.valid
    THEN <<end_state.s1, end_state.s2, end_state.tok>>
    ELSE <<RunStart.s1, RunStart.s2, RunStart.tok>>

\* C13: when a chunked run has aborted on a failing call in chunk i, the
\* encoder cache, state1, state2 and last_token are those committed by chunks
\* 0..i-1 (for chunk 0: the initial ones); no update made while the failed
\* chunk was processed is left in them.
C13_AllOrNothing ==
  pc = "error" /\ phase \in ChunkedPhases =>
    /\ chunk_idx = 0 => cache = RunStart.cache
    /\ end_state.valid => end_state.chunk = chunk_idx - 1
    /\ <<state1, state2, last_token>> = CommittedBefore

\* C14: a decoder-joint call whose logits have fewer than VOCAB_SIZE elements
\* ends the run with an error; no argmax over the shorter slice is taken and
\* no token is emitted from it.
C14_MalformedFatal ==
  dec.valid /\ dec.logits.n < VOCAB_SIZE =>
    /\ pc = "error"
    /\ dec.pred = NoPred

\* C16: the predicted symbol is an index below VOCAB_SIZE holding the maximum
\* of the first VOCAB_SIZE logits, and the lowest such index: what lies past
\* index BLANK_ID is ignored, and when a token's logit ties with the blank
\* logit for the maximum the token is predicted and emitted.
C16_Argmax ==
  dec.valid /\ dec.pred # NoPred =>
    LET l == dec.logits
        p == dec.pred
    IN /\ p \in LogitIdx
       /\ p < l.n
       /\ p < VOCAB_SIZE
       /\ \A j \in LogitIdx : j < l.n /\ j < VOCAB_SIZE => l.v[j] <= l.v[p]
       /\ \A j \in LogitIdx : j < p => l.v[j] < l.v[p]
       /\ (/\ l.n > BLANK_ID
           /\ \E t \in TokenIds : l.v[t] = l.v[BLANK_ID]
           /\ \A t \in TokenIds : l.v[t] <= l.v[BLANK_ID]) =>
            /\ p \in TokenIds
            /\ last_token = p
            /\ StreamTokens # <<>>
            /\ StreamTokens[Len(StreamTokens)] = p

\* The blank logit, the logit of token MaxTokenId and the logit past the
\* vocabulary are equal maxima, the logit of token 0 is lower: the token is
\* predicted.
C16_Witness ==
  /\ dec.valid
  /\ dec.logits.n = VOCAB_SIZE + 1
  /\ dec.logits.v[0] = 0
  /\ dec.logits.v[MaxTokenId] = 1
  /\ dec.logits.v[BLANK_ID] = 1
  /\ dec.logits.v[VOCAB_SIZE] = 1
  /\ dec.pred = MaxTokenId

\* C15: in a chunked run the step that calls the encoder is taken from the
\* head of the chunk loop, for the chunk at the current offset; it is the
\* chunk's only feature extraction and encoder call, the chunk before it
\* started at a lower offset, its encoder call has returned and all of its
\* encoded frames have been decoded.
C15_Sequential ==
  [][phase' \in ChunkedPhases /\ enc_in' # NoCall =>
       /\ pc = "chunk_loop"
       /\ enc_calls = chunk_idx
       /\ enc_calls' = chunk_idx + 1
       /\ Len(chunks) = chunk_idx
       /\ chunks' = Append(chunks, chunks'[Len(chunks')])
       /\ chunks'[Len(chunks')].lo = offset
       /\ chunk_idx > 0 =>
            /\ chunks[Len(chunks)].lo < offset
            /\ frame_idx >= enc_out_frames
            /\ end_state.valid
            /\ end_state.chunk = chunk_idx - 1]_vars

\* The encoder call of a second chunk, after a frame of the first was decoded.
C15_Witness ==
  /\ phase \in ChunkedPhases
  /\ enc_in # NoCall
  /\ enc_calls = 2
  /\ Len(chunks) = 2
  /\ chunks[1].lo < chunks[2].lo
  /\ done_frame.valid
  /\ done_frame.chunk = 0

VsRuns == {"vs_1s", "vs_25s", "vs_batch"}

\* The state of a stream that has processed nothing.
FreshStream ==
  /\ cache = RunStart.cache
  /\ cache = [channel |-> 0, time |-> 0, len |-> 0]
  /\ <<state1, state2, last_token>> = <<0, 0, BLANK_ID>>
  /\ all_tokens = <<>>
  /\ run_emits = 0
  /\ enc_calls = 0

\* C17: every run of verify_streaming.main (1 s, 2.5 s, batch) starts as a
\* fresh stream: the step that starts it leaves an all-zero cache of valid
\* length 0, zero state1/state2, last_token = BLANK_ID and no tokens, whatever
\* the run before left, and the run's first encoder call is made in that state.
C17_FreshRuns ==
  [][/\ phase' \in VsRuns /\ phase' # phase => FreshStream'
     /\ phase' \in VsRuns /\ enc_in' # NoCall /\ enc_calls = 0 =>
          /\ FreshStream
          /\ enc_in' = ZeroCache]_vars

\* The batch run's first encoder call, made with the zero cache after runs in
\* which every encoder call returned a non-zero cache.
C17_Witness ==
  /\ phase = "vs_batch"
  /\ env = "decoder"
  /\ pcm_len >= window_size
  /\ enc_calls = 1
  /\ enc_in = ZeroCache
  /\ cache = ZeroCache

\* ------------------------------------------------------------ mel filterbank
\* The band boundaries bin_points[i] = floor(freq_i * fft_size / sample_rate
\* + 0.5) of increasing frequencies freq_i: every non-decreasing sequence of
\* NumBands + 2 FFT bins, repeated bins included.
BinSeqs ==
  {p \in [1..(NumBands + 2) -> 0..MaxBin] :
     \A i \in 1..(NumBands + 1) : p[i] <= p[i + 1]}

\* As RisingWeight, one bin too far up the slope.
RisingWeightOffByOne(b, left, center) ==
  [num |-> b - left + 1, den |-> center - left]

\* weight = (b - left) / (center - left), kept as a fraction.
RisingWeight(b, left, center) == [num |-> b - left, den |-> center - left]

\* weight = (right - b) / (right - center).
FallingWeight(b, center, right) == [num |-> right - b, den |-> right - center]

\* As Keep, with every entry stored.
KeepAll(w) == TRUE

\* if weight > 0.0 (the divisor is positive where a weight is computed).
Keep(w) == w.num > 0

\* The entries of the rising side: for b in range(left, center).
RisingSide(left, center) ==
  IF center > left
    THEN SelectSeq([k \in 1..(center - left) |->
                      [bin |-> left + k - 1,
                       w |-> RisingWeight(left + k - 1, left, center)]],
                   LAMBDA e : Keep(e.w))
    ELSE <<>>

\* The entries of the falling side: for b in range(center, right).
FallingSide(center, right) ==
  IF right > center
    THEN SelectSeq([k \in 1..(right - center) |->
                      [bin |-> center + k - 1,
                       w |-> FallingWeight(center + k - 1, center, right)]],
                   LAMBDA e : Keep(e.w))
    ELSE <<>>

\* filt of band i (bands counted from 1): left, center, right are
\* bin_points[i], [i + 1], [i + 2].
Band(p, i) == RisingSide(p[i], p[i + 1]) \o FallingSide(p[i + 1], p[i + 2])

\* create_mel_filterbank called with band boundaries bin_points.
InitFb ==
  /\ prog = "verify_streaming"
  /\ env = "fixed"
  /\ phase = "filterbank"
  /\ pcm_len = 0
  /\ nemo_num_frames = 0
  /\ max_sym = MaxSym
  /\ bin_points \in BinSeqs
  /\ chunk_samples = 0
  /\ InitLocals

\* The band loop: one filter per band, returned as a list.  The function
\* raises nothing, prints nothing and returns nothing else: it reports no band.
CreateMelFilterbank ==
  /\ pc = "fb_call"
  /\ filters' = [i \in 1..NumBands |-> Band(bin_points, i)]
  /\ fb_report' = {}
  /\ pc' = "fb_done"
  /\ UNCHANGED bin_points
  /\ UNCHANGED <<prog, env, phase, pcm_len, nemo_num_frames, max_sym, scale_idx,
                 offset, chunk_idx, cache, state1, state2, last_token,
                 enc_out_frames, frame_idx, sym_step, chunk_tokens, all_tokens,
                 num_frames>>
  /\ UNCHANGED logVars
  /\ UNCHANGED fxVars
  /\ UNCHANGED frVars
  /\ UNCHANGED cntVars

NextFb == CreateMelFilterbank

SpecFb == InitFb /\ [][NextFb]_vars

\* The weights band i gives to FFT bin b.
WeightsAt(i, b) ==
  SelectSeq(filters[i], LAMBDA e : e.bin = b)

FracAdd(x, y) == [num |-> x.num * y.den + y.num * x.den, den |-> x.den * y.den]

RECURSIVE FracSum(_)
FracSum(es) ==
  IF es = <<>> THEN [num |-> 0, den |-> 1]
  ELSE FracAdd(es[1].w, FracSum(Tail(es)))

RECURSIVE BinEntries(_, _)
\* The entries of bands 1..i for bin b.
BinEntries(i, b) ==
  IF i = 0 THEN <<>> ELSE BinEntries(i - 1, b) \o WeightsAt(i, b)

\* C18: for every non-decreasing sequence of band boundaries the filterbank
\* gives every FFT bin a total weight, summed over all bands, of at most 1,
\* and no weight is negative.
C18_TotalWeight ==
  pc = "fb_done" =>
    /\ \A b \in 0..MaxBin :
         LET t == FracSum(BinEntries(NumBands, b)) IN
         t.den > 0 /\ t.num <= t.den
    /\ \A i \in 1..NumBands : \A k \in 1..Len(filters[i]) :
         filters[i][k].w.den > 0 /\ filters[i][k].w.num >= 0

\* Boundaries with a repeated bin, and a bin whose total weight 1 is shared by
\* two bands with weights below 1.
C18_Witness ==
  /\ pc = "fb_done"
  /\ \E i \in 1..(NumBands + 1) : bin_points[i] = bin_points[i + 1]
  /\ \E b \in 0..MaxBin :
       LET es == BinEntries(NumBands, b) IN
       /\ Len(es) = 2
       /\ es[1].w.num < es[1].w.den
       /\ es[2].w.num < es[2].w.den
       /\ FracSum(es).num = FracSum(es).den

\* C19: every entry (fft_bin, weight) of band i has left_i <= fft_bin <
\* right_i and 0 < weight <= 1 with a positive divisor; the band holds exactly
\* the bins left_i + 1 .. center_i - 1 of its rising side and center_i ..
\* right_i - 1 of its falling side, so the zero-weight bin left_i is left out
\* and a side with center = left or right = center has no entry.
C19_Entries ==
  pc = "fb_done" =>
    \A i \in 1..NumBands :
      LET left == bin_points[i]
          center == bin_points[i + 1]
          right == bin_points[i + 2]
          f == filters[i]
      IN /\ \A k \in 1..Len(f) :
              /\ left <= f[k].bin
              /\ f[k].bin < right
              /\ f[k].w.den > 0
              /\ 0 < f[k].w.num
              /\ f[k].w.num <= f[k].w.den
         /\ Len(f) = Max(center - left - 1, 0) + Max(right - center, 0)
         /\ \A b \in (left + 1)..(center - 1) : WeightsAt(i, b) # <<>>
         /\ \A b \in center..(right - 1) : WeightsAt(i, b) # <<>>
         /\ center = left => \A k \in 1..Len(f) : f[k].bin >= center
         /\ right = center => \A k \in 1..Len(f) : f[k].bin < center

\* A band with no rising side but a falling one, and a band whose rising side
\* spans two bins or more, so that its zero-weight bin was left out.
C19_Witness ==
  /\ pc = "fb_done"
  /\ \E i \in 1..NumBands :
       /\ bin_points[i] = bin_points[i + 1]
       /\ bin_points[i + 1] < bin_points[i + 2]
       /\ filters[i] # <<>>
  /\ \E i \in 1..NumBands :
       /\ bin_points[i] + 1 < bin_points[i + 1]
       /\ WeightsAt(i, bin_points[i]) = <<>>

\* C20: when the band boundaries are not strictly increasing, every band left
\* without any weight is reported as a configuration error, and the other
\* bands have their filters.
C20_DegenerateReported ==
  pc = "fb_done" =>
    \A i \in 1..NumBands :
      IF filters[i] = <<>>
        THEN i \in fb_report
        ELSE filters[i] = Band(bin_points, i)

\* ------------------------------------------------------------ feature values
SampleVals == {0, 1}

\* The signals given to feature extraction.
PcmSeqs == UNION {[1..n -> SampleVals] : n \in 0..MaxPcmLen}

\* nf = (len - window_size) // hop_size + 1 on the modelled window.
FxNumFrames(n) == (n - FxWindow) \div FxHop + 1

\* As SignalFirst, with pre-emphasis against the sample before the chunk.
SignalFirstCarried(x, carried) == 100 * x[1] - PRE_EMPHASIS * carried

\* signal[0] = pcm[0] / 32768.0: the first sample has no pre-emphasis, and
\* the sample before the chunk (carried) is not used.  Values are in units of
\* 1 / (100 * 32768).
SignalFirst(x, carried) == 100 * x[1]

\* signal[i] = pcm[i] / 32768.0 - PRE_EMPHASIS * pcm[i - 1] / 32768.0.
Signal(x, carried) ==
  [i \in 1..Len(x) |->
     IF i = 1 THEN SignalFirst(x, carried)
     ELSE 100 * x[i] - PRE_EMPHASIS * x[i - 1]]

\* signal[start:end] of frame t, start = t * hop_size.
Frame(sig, t) == SubSeq(sig, t * FxHop + 1, t * FxHop + FxWindow)

\* log(mel_energy + 1e-10) of band b for a frame: the window function, the
\* transform, the band's filter and the logarithm are functions of the frame's
\* samples and of b, kept as a term.
MelLog(b, frame) == [band |-> b, frame |-> frame]

\* An element of np.zeros that was never written.
ZeroFeature == [band |-> 0 - 1, frame |-> <<>>]

\* As WriteIndex, with the frames of a band apart by the number of bands.
WriteIndexFrameMajor(b, t, nf) == t * NumBands + b

\* features[bin_idx * num_frames + frame_idx].
WriteIndex(b, t, nf) == b * nf + t

\* The assignments of the loops over frame_idx (outer) and bin_idx (inner), in
\* the order they are made.
WriteSeq(sig, nf) ==
  [k \in 1..(nf * NumBands) |->
     LET t == (k - 1) \div NumBands
         b == (k - 1) % NumBands
     IN [idx |-> WriteIndex(b, t, nf), val |-> MelLog(b, Frame(sig, t))]]

RECURSIVE ApplyWrites(_, _)
\* The array after the assignments ws (index 0 is element 1).
ApplyWrites(arr, ws) ==
  IF ws = <<>> THEN arr
  ELSE ApplyWrites([arr EXCEPT ![ws[1].idx + 1] = ws[1].val], Tail(ws))

\* The flat array compute_features_rust_style returns.
FlatFeatures(sig, nf) ==
  ApplyWrites([i \in 1..(NumBands * nf) |-> ZeroFeature], WriteSeq(sig, nf))

\* How often each element of the flat array is assigned.
WriteCounts(sig, nf) ==
  LET ws == WriteSeq(sig, nf) IN
  [i \in 1..(NumBands * nf) |->
     Cardinality({k \in 1..Len(ws) : ws[k].idx + 1 = i})]

\* features.reshape(rows, cols): element [r][c] is flat element r * cols + c.
Reshape(flat, rows, cols) ==
  [r \in 0..(rows - 1) |-> [c \in 0..(cols - 1) |-> flat[r * cols + c + 1]]]

\* feats of debug_features2 before normalization: feats[:, t] is frame t.
RawFeats(sig, nf) ==
  [b \in 0..(NumBands - 1) |-> [t \in 0..(nf - 1) |-> MelLog(b, Frame(sig, t))]]

\* As BandStats, with the frames of the call before counted in.
BandStatsRunning(row, earlier) == <<earlier, row>>

\* m = feats[b].mean() and s = max(feats[b].std(), 1e-5): functions of the
\* band's values over the frames of this call, kept as that row; the band's
\* values of the call before (earlier) are not used.
BandStats(row, earlier) == row

\* The row of band b in the features of the call before, if it had any.
EarlierRow(b) ==
  IF feat_prev.valid /\ feat_prev.num_frames > 0 /\ prog = "debug_features2"
    THEN feat_prev.features[b]
    ELSE <<>>

\* feats[b] = (feats[b] - m) / s for every band.
Normalize(feats, nf) ==
  [b \in 0..(NumBands - 1) |->
     [t \in 0..(nf - 1) |->
        [val |-> feats[b][t], stats |-> BandStats(feats[b], EarlierRow(b))]]]

\* The last sample of the chunk extracted before, 0 before the first call.
Carried == IF pcm = <<>> THEN 0 ELSE pcm[Len(pcm)]

\* The call made last, as the next call's predecessor.
LastCall ==
  IF pc = "fx_next"
    THEN [valid |-> TRUE, pcm |-> pcm, do_normalize |-> do_normalize,
          features |-> features, num_frames |-> num_frames]
    ELSE NoCall

\* Calls of the feature extraction of verify_streaming or debug_features2.
InitFx ==
  /\ prog \in {"verify_streaming", "debug_features2"}
  /\ env = "fixed"
  /\ phase = "extract"
  /\ pcm_len = 0
  /\ nemo_num_frames = 0
  /\ max_sym = MaxSym
  /\ bin_points = <<>>
  /\ chunk_samples = 0
  /\ InitLocals

\* compute_features_rust_style(x, 16000) of verify_streaming.
ExtractRustStyle(x) ==
  /\ pc \in {"fx_call", "fx_next"}
  /\ prog = "verify_streaming"
  /\ pcm' = x
  /\ do_normalize' = FALSE
  /\ IF Len(x) < FxWindow
       THEN /\ pc' = "error"
            /\ num_frames' = 0
            /\ features' = <<>>
            /\ feat_writes' = <<>>
       ELSE LET sig == Signal(x, Carried)
                nf == FxNumFrames(Len(x))
            IN /\ pc' = "fx_next"
               /\ num_frames' = nf
               /\ features' = FlatFeatures(sig, nf)
               /\ feat_writes' = WriteCounts(sig, nf)
  /\ feat_prev' = LastCall
  /\ UNCHANGED <<prog, env, phase, pcm_len, nemo_num_frames, max_sym, scale_idx,
                 offset, chunk_idx, cache, state1, state2, last_token,
                 enc_out_frames, frame_idx, sym_step, chunk_tokens, all_tokens>>
  /\ UNCHANGED logVars
  /\ UNCHANGED fbVars
  /\ UNCHANGED cntVars
  /\ UNCHANGED frVars

\* compute_features(x, do_normalize=norm) of debug_features2: an empty signal
\* fails at pre[0] = sig[0], a negative nf at np.zeros((n_mels, nf)).
ExtractDf2(x, norm) ==
  /\ pc \in {"fx_call", "fx_next"}
  /\ prog = "debug_features2"
  /\ pcm' = x
  /\ do_normalize' = norm
  /\ IF Len(x) = 0 \/ FxNumFrames(Len(x)) < 0
       THEN /\ pc' = "error"
            /\ num_frames' = 0
            /\ features' = <<>>
       ELSE LET sig == Signal(x, Carried)
                nf == FxNumFrames(Len(x))
            IN /\ pc' = "fx_next"
               /\ num_frames' = nf
               /\ features' = IF norm THEN Normalize(RawFeats(sig, nf), nf)
                              ELSE RawFeats(sig, nf)
  /\ feat_writes' = <<>>
  /\ feat_prev' = LastCall
  /\ UNCHANGED <<prog, env, phase, pcm_len, nemo_num_frames, max_sym, scale_idx,
                 offset, chunk_idx, cache, state1, state2, last_token,
                 enc_out_frames, frame_idx, sym_step, chunk_tokens, all_tokens>>
  /\ UNCHANGED logVars
  /\ UNCHANGED fbVars
  /\ UNCHANGED cntVars
  /\ UNCHANGED frVars

NextFx ==
  \/ \E x \in PcmSeqs : ExtractRustStyle(x)
  \/ \E x \in PcmSeqs : \E norm \in BOOLEAN : ExtractDf2(x, norm)

SpecFx == InitFx /\ [][NextFx]_vars

\* The value of band b at frame t for the samples x alone.
OwnValue(x, b, t) == MelLog(b, Frame(Signal(x, 0), t))

\* C21: the features and num_frames a call returns are a function of the
\* call's own samples and do_normalize: they are the values computed from
\* those samples alone, a call given the same input as the call before it
\* returns the same features and num_frames, and with normalization the
\* statistics applied to a band are those of the band's values over the
\* frames of this call.
C21_Deterministic ==
  phase = "extract" /\ pc = "fx_next" =>
    /\ num_frames = FxNumFrames(Len(pcm))
    /\ \A b \in 0..(NumBands - 1) : \A t \in 0..(num_frames - 1) :
         IF prog = "verify_streaming"
           THEN features[b * num_frames + t + 1] = OwnValue(pcm, b, t)
           ELSE IF do_normalize
             THEN /\ features[b][t].val = OwnValue(pcm, b, t)
                  /\ features[b][t].stats =
                       [u \in 0..(num_frames - 1) |-> OwnValue(pcm, b, u)]
             ELSE features[b][t] = OwnValue(pcm, b, t)
    /\ (/\ feat_prev.valid
        /\ feat_prev.pcm = pcm
        /\ feat_prev.do_normalize = do_normalize) =>
         /\ feat_prev.features = features
         /\ feat_prev.num_frames = num_frames

\* The same signal of two frames or more, ending in a non-zero sample, is
\* extracted twice in a row with normalization.
C21_Witness ==
  /\ phase = "extract"
  /\ pc = "fx_next"
  /\ do_normalize
  /\ num_frames >= 2
  /\ pcm[Len(pcm)] # 0
  /\ feat_prev.valid
  /\ feat_prev.pcm = pcm
  /\ feat_prev.do_normalize
  /\ feat_prev.features = features

\* C22: compute_features_rust_style writes band b of frame t to flat index
\* b * num_frames + t; every index 0 .. NumBands * num_frames - 1 is written
\* exactly once, and the array reshaped to (NumBands, num_frames) has band b
\* of frame t at [b][t].
C22_BandMajor ==
  phase = "extract" /\ prog = "verify_streaming" /\ pc = "fx_next" =>
    /\ Len(features) = NumBands * num_frames
    /\ Len(feat_writes) = NumBands * num_frames
    /\ \A i \in 1..Len(feat_writes) : feat_writes[i] = 1
    /\ \A b \in 0..(NumBands - 1) : \A t \in 0..(num_frames - 1) :
         /\ features[b * num_frames + t + 1] = OwnValue(pcm, b, t)
         /\ Reshape(features, NumBands, num_frames)[b][t] = OwnValue(pcm, b, t)

\* Features of two frames or more whose frames differ.
C22_Witness ==
  /\ phase = "extract"
  /\ prog = "verify_streaming"
  /\ pc = "fx_next"
  /\ num_frames >= 2
  /\ features[1] # features[2]
  /\ features[1].band = features[2].band
  /\ features[num_frames + 1].band = 1

\* ------------------------------------------------------------ decode loop
\* C23: a call that predicts blank undoes nothing but itself: last_token and
\* the token sequence are as before the call, and what the call before it
\* committed (its output states, its token as last_token and as the last
\* token of the sequence) and the frame's emissions so far are kept.
C23_BlankUndoesOwnCall ==
  [][dec'.valid /\ dec'.pred = BLANK_ID =>
       /\ last_token' = last_token
       /\ StreamTokens' = StreamTokens
       /\ run_emits' = run_emits
       /\ done_frame'.valid
       /\ done_frame'.blank
       /\ done_frame'.emits = frame_emits
       /\ dec.valid /\ dec.pred # BLANK_ID =>
            /\ <<state1', state2'>> = <<dec.out_s1, dec.out_s2>>
            /\ last_token' = dec.pred
            /\ StreamTokens' # <<>>
            /\ StreamTokens'[Len(StreamTokens')] = dec.pred]_vars

\* A blank on the second call of a frame, after a token of the same frame,
\* with returned states that both differ from the committed ones.
C23_Witness ==
  /\ dec.valid
  /\ dec.pred = BLANK_ID
  /\ dec.step = 1
  /\ FrameJustDone
  /\ done_frame.emits = 1
  /\ last_token # BLANK_ID
  /\ StreamTokens # <<>>
  /\ dec.out_s1 # state1
  /\ dec.out_s2 # state2

\* C24: a decoder-joint call is made for the current frame, a frame below
\* enc_out_frames; a first call of a frame other than frame 0 follows the end
\* of the frame before it; a blank prediction ends the frame, so that the
\* call after a blank is the first call of the next frame; the frame index
\* moves by one at a time, and when the frame loop is left every frame
\* 0 .. enc_out_frames - 1 has been finished with at least one call.
C24_BlankTerminal ==
  [][/\ dec'.valid =>
          /\ dec'.frame = frame_idx
          /\ dec'.frame < enc_out_frames
          /\ dec'.step = sym_step
          /\ dec'.step = 0 /\ dec'.frame > 0 =>
               /\ done_frame.valid
               /\ done_frame.chunk = dec'.chunk
               /\ done_frame.frame = dec'.frame - 1
               /\ done_frame.calls >= 1
          /\ dec'.pred = BLANK_ID =>
               /\ frame_idx' = frame_idx + 1
               /\ sym_step' = 0
               /\ done_frame'.frame = frame_idx
               /\ done_frame'.blank
          /\ frame_idx' \in {frame_idx, frame_idx + 1}
     /\ dec.valid /\ dec.pred = BLANK_ID /\ dec'.valid =>
          /\ dec'.chunk = dec.chunk
          /\ dec'.frame = dec.frame + 1
          /\ dec'.step = 0
     /\ pc = "decode" /\ pc' \in {"chunk_loop", "after_loop"} =>
          /\ frame_idx = enc_out_frames
          /\ enc_out_frames > 0 =>
               /\ done_frame.valid
               /\ done_frame.chunk = chunk_idx
               /\ done_frame.frame = enc_out_frames - 1
               /\ done_frame.calls >= 1]_vars

\* The first call of frame 1 predicts a token and is not the frame's last,
\* after frame 0 ended on a blank that followed a token.
C24_Witness ==
  /\ dec.valid
  /\ dec.frame = 1
  /\ dec.step = 0
  /\ dec.pred # BLANK_ID
  /\ frame_calls = 1
  /\ done_frame.valid
  /\ done_frame.frame = 0
  /\ done_frame.blank
  /\ done_frame.calls = 2

\* C25: in the runs of verify_streaming the pair (state1, state2) changes
\* only in a step whose decoder-joint call predicted a token, and then to the
\* two states that call returned, with one more token emitted; so it is the
\* all-zero pair while the run has emitted nothing, and afterwards a pair that
\* one call returned, never a mix of two calls' states.
C25_StatePair ==
  [][phase' \in VsRuns /\ phase' = phase =>
       /\ IF dec'.valid /\ dec'.pred # BLANK_ID
            THEN /\ <<state1', state2'>> = <<dec'.out_s1, dec'.out_s2>>
                 /\ run_emits' = run_emits + 1
            ELSE /\ <<state1', state2'>> = <<state1, state2>>
                 /\ run_emits' = run_emits
       /\ run_emits' = 0 => <<state1', state2'>> = <<0, 0>>
       /\ run_emits' > 0 => <<state1', state2'>> \in StatePairs]_vars

\* In a second chunk, after two tokens, a blank call returns a pair other than
\* the committed one.
C25_Witness ==
  /\ phase \in VsRuns
  /\ chunk_idx = 1
  /\ dec.valid
  /\ dec.pred = BLANK_ID
  /\ run_emits >= 2
  /\ <<state1, state2>> \in StatePairs
  /\ <<dec.out_s1, dec.out_s2>> # <<state1, state2>>

\* C26: in the runs of verify_streaming a step that calls the encoder leaves
\* state1, state2, last_token and the token sequence unchanged and makes no
\* decoder-joint call; a step that calls the decoder-joint network leaves the
\* encoder cache unchanged and makes no encoder call; the cache changes in
\* encoder steps only and the decoder state in decoder-joint steps only.
C26_OwnComponent ==
  [][phase' \in VsRuns /\ phase' = phase =>
       /\ enc_in' # NoCall =>
            /\ <<state1', state2', last_token'>> = <<state1, state2, last_token>>
            /\ StreamTokens' = StreamTokens
            /\ ~dec'.valid
       /\ dec'.valid =>
            /\ cache' = cache
            /\ enc_in' = NoCall
            /\ enc_aux' = NoCall
            /\ enc_calls' = enc_calls
       /\ cache' # cache => enc_in' # NoCall
       /\ <<state1', state2', last_token'>> # <<state1, state2, last_token>> =>
            dec'.valid]_vars

\* A second encoder call changes the cache while the decoder holds a non-zero
\* state and a token.
C26_Witness ==
  /\ phase \in VsRuns
  /\ enc_in # NoCall
  /\ enc_calls = 2
  /\ cache # enc_in
  /\ last_token # BLANK_ID
  /\ <<state1, state2>> # <<0, 0>>
  /\ all_tokens # <<>>

\* ------------------------------------------------------------ termination
\* verify_streaming with any encoder frame counts and any decoder-joint
\* predictions, its calls and frames counted.  Every call returns and the
\* script is sequential: a step that can be taken is taken.
InitLive ==
  /\ prog = "verify_streaming"
  /\ env = "live"
  /\ \/ phase = "vs_1s" /\ pcm_len \in AudioLens
     \/ phase = "vs_25s" /\ pcm_len \in AudioLens25
  /\ nemo_num_frames = 0
  /\ max_sym \in 1..MaxSym
  /\ bin_points = <<>>
  /\ chunk_samples = 0
  /\ InitLocals

SpecLive == InitLive /\ [][Next]_vars /\ WF_vars(Next)

\* C27: in the chunked runs of verify_streaming the offset moves only at the
\* end of a chunk, by exactly chunk_samples, with the chunk index; the
\* decoder-joint calls of a run never exceed max_sym times the encoded frames
\* its encoder calls returned, whatever the decoder-joint network predicts;
\* and every chunked run, once started, reaches the end of its chunk loop.
C27_Terminates ==
  /\ [][phase' = phase /\ phase \in {"vs_1s", "vs_25s"} =>
          /\ offset' # offset \/ chunk_idx' # chunk_idx =>
               /\ offset' = offset + ChunkSize(phase)
               /\ ChunkSize(phase) > 0
               /\ chunk_idx' = chunk_idx + 1
          /\ run_calls' <= max_sym * run_frames'
          /\ pc' = "after_loop" =>
               \/ offset' >= pcm_len
               \/ phase = "vs_25s" /\ pcm_len - offset' < MinChunk25]_vars
  /\ \A ph \in {"vs_1s", "vs_25s"} :
       (phase = ph) ~> (phase = ph /\ pc = "after_loop")

\* A run of two chunks ends after MaxSym calls on every one of at least two
\* encoded frames: the decoder-joint network never predicted blank.
C27_Witness ==
  /\ phase \in {"vs_1s", "vs_25s"}
  /\ pc = "after_loop"
  /\ chunk_idx = 2
  /\ max_sym = MaxSym
  /\ run_frames >= 2
  /\ run_calls = MaxSym * run_frames
  /\ run_emits = run_calls

\* ------------------------------------------------------------ tokens and chunks
\* C28: whatever logits the decoder-joint call returns, a predicted index is
\* at most BLANK_ID, and every token of the token sequence lies in
\* 0 .. BLANK_ID - 1: neither BLANK_ID nor an index from VOCAB_SIZE on is
\* emitted.
C28_TokenRange ==
  /\ \A i \in 1..Len(StreamTokens) : StreamTokens[i] \in 0..(BLANK_ID - 1)
  /\ last_token \in 0..BLANK_ID
  /\ dec.valid /\ dec.pred # NoPred =>
       /\ dec.pred \in 0..BLANK_ID
       /\ dec.pred # BLANK_ID =>
            /\ StreamTokens # <<>>
            /\ StreamTokens[Len(StreamTokens)] = dec.pred

\* The only maximum of the logits is past the vocabulary: token 0, the first
\* of the equal logits below VOCAB_SIZE, is emitted.
C28_Witness ==
  /\ dec.valid
  /\ dec.logits.n = VOCAB_SIZE + 1
  /\ dec.logits.v[VOCAB_SIZE] = 1
  /\ dec.logits.v[BLANK_ID] = 0
  /\ \A t \in TokenIds : dec.logits.v[t] = 0
  /\ dec.pred = 0
  /\ StreamTokens # <<>>
  /\ StreamTokens[Len(StreamTokens)] = 0

\* The stream's tokens before the decoder-joint call just made.
TokensBeforeCall ==
  IF dec.pred # BLANK_ID
    THEN SubSeq(StreamTokens, 1, Len(StreamTokens) - 1)
    ELSE StreamTokens

\* C29: in the 1 s and 2.5 s runs of verify_streaming the targets input of a
\* decoder-joint call is BLANK_ID if the run has emitted no token before the
\* call, and otherwise the token emitted last before it, whether that was on
\* the same frame, an earlier frame or an earlier chunk.
C29_Targets ==
  phase \in {"vs_1s", "vs_25s"} /\ dec.valid =>
    dec.in_tok = IF TokensBeforeCall = <<>>
                   THEN BLANK_ID
                   ELSE TokensBeforeCall[Len(TokensBeforeCall)]

\* The first call of a second chunk is given the last token of the first
\* chunk, emitted on a frame that ended with a blank.
C29_Witness ==
  /\ phase \in {"vs_1s", "vs_25s"}
  /\ dec.valid
  /\ dec.chunk = 1
  /\ dec.frame = 0
  /\ dec.step = 0
  /\ dec.pred = BLANK_ID
  /\ chunk_tokens = <<>>
  /\ all_tokens # <<>>
  /\ dec.in_tok = all_tokens[Len(all_tokens)]
  /\ done_frame.blank

\* C30: in the 1 s run of verify_streaming chunk i (from 1) holds the samples
\* (i - 1) * 16000 up to min(i * 16000, len(pcm)), at least one of them, and
\* is 16000 samples long after padding, which gives 98 feature frames and no
\* too-short error; only a chunk that ends the audio is padded; when the loop
\* is over, ceil(len(pcm) / 16000) chunks were processed and the last one ends
\* at the end of the audio.
C30_Chunks1s ==
  phase = "vs_1s" =>
    /\ pc # "error"
    /\ pc = "decode" => num_frames = 98
    /\ \A i \in 1..Len(chunks) :
         /\ chunks[i].lo = (i - 1) * REQUIRED_SAMPLE_RATE
         /\ chunks[i].hi = Min(i * REQUIRED_SAMPLE_RATE, pcm_len)
         /\ chunks[i].lo < chunks[i].hi
         /\ chunks[i].len = REQUIRED_SAMPLE_RATE
         /\ ~InsufficientAudio(chunks[i].len)
         /\ NumFrames(chunks[i].len) = 98
         /\ chunks[i].hi - chunks[i].lo < chunks[i].len => chunks[i].hi = pcm_len
    /\ pc = "after_loop" =>
         /\ Len(chunks) = (pcm_len + REQUIRED_SAMPLE_RATE - 1) \div REQUIRED_SAMPLE_RATE
         /\ chunks # <<>> => chunks[Len(chunks)].hi = pcm_len

\* Audio of one second and one sample: two chunks, the second of one sample
\* and 15999 zeros.
C30_Witness ==
  /\ phase = "vs_1s"
  /\ pc = "after_loop"
  /\ pcm_len = REQUIRED_SAMPLE_RATE + 1
  /\ Len(chunks) = 2
  /\ chunks[1].hi - chunks[1].lo = REQUIRED_SAMPLE_RATE
  /\ chunks[2].hi - chunks[2].lo = 1
  /\ chunks[2].len = REQUIRED_SAMPLE_RATE

\* C31: on audio of N >= 2 whole chunks of C >= window_size samples, the
\* chunked run yields N * ((C - window_size) \div hop_size + 1) feature frames
\* in all, the batch run (N * C - window_size) \div hop_size + 1, and the
\* chunked total is strictly the smaller; for C = 16000 they are 98 * N and
\* 100 * N - 2.
C31_ChunkingLosesFrames ==
  LET N == pcm_len \div chunk_samples
      C == chunk_samples
  IN  /\ phase = "frames"
      /\ pc = "fr_done"
      /\ C >= window_size
      /\ pcm_len = N * C
      /\ N >= 2
      => /\ chunk_idx = N
         /\ feat_frames = N * ((C - window_size) \div hop_size + 1)
         /\ num_frames = (N * C - window_size) \div hop_size + 1
         /\ feat_frames < num_frames
         /\ C = 16000 => feat_frames = 98 * N /\ num_frames = 100 * N - 2

\* Two whole one-second chunks: 196 frames chunked, 198 in one batch.
C31_Witness ==
  /\ phase = "frames"
  /\ pc = "fr_done"
  /\ chunk_samples = 16000
  /\ pcm_len = 32000
  /\ chunk_idx = 2
  /\ feat_frames = 196
  /\ num_frames = 198

\* C32: for every accepted input and every frame index f < num_frames, the
\* frame's sample range [f * hop_size, f * hop_size + window_size) lies inside
\* the signal, so that the frame has exactly window_size samples; and at most
\* hop_size - 1 samples at the end of the signal belong to no frame.
C32_FramesInsideSignal ==
  phase = "features" /\ pc = "feat_done" =>
    /\ pcm_len >= window_size
    /\ num_frames >= 1
    /\ Len(frames) = num_frames
    /\ \A f \in 0..(num_frames - 1) :
         /\ frames[f + 1].start = f * hop_size
         /\ frames[f + 1].end = f * hop_size + window_size
         /\ frames[f + 1].end <= pcm_len
         /\ frames[f + 1].len = window_size
    /\ pcm_len - frames[num_frames].end \in 0..(hop_size - 1)

\* A signal of two overlapping frames whose last hop_size - 1 samples belong
\* to no frame.
C32_Witness ==
  /\ phase = "features"
  /\ pc = "feat_done"
  /\ pcm_len = window_size + 2 * hop_size - 1
  /\ Len(frames) = 2
  /\ frames[2].start < frames[1].end
  /\ frames[2].len = window_size
  /\ pcm_len - frames[2].end = hop_size - 1

\* C33: in Test 2 of verify_nemo_features the slices of feature frames handed
\* to the encoder are [frame_offset, frame_offset + frames_in_chunk) with
\* 1 <= frames_in_chunk <= 98; each starts where the one before it ended (the
\* first at 0), none reaches past nemo_num_frames, the length passed with a
\* slice is its number of frames, and the loop is left exactly when
\* frame_offset = nemo_num_frames, the slices then covering every frame.
C33_NemoSlices ==
  phase = "nemo_t2" =>
    /\ \A i \in 1..Len(chunks) :
         /\ chunks[i].lo = (IF i = 1 THEN 0 ELSE chunks[i - 1].hi)
         /\ chunks[i].hi - chunks[i].lo \in 1..ChunkFramesNemo
         /\ chunks[i].hi <= nemo_num_frames
         /\ chunks[i].len = chunks[i].hi - chunks[i].lo
    /\ enc_aux # NoCall =>
         /\ chunks # <<>>
         /\ offset = chunks[Len(chunks)].lo
         /\ enc_aux.length = chunks[Len(chunks)].hi - offset
    /\ pc = "chunk_loop" =>
         offset = (IF chunks = <<>> THEN 0 ELSE chunks[Len(chunks)].hi)
    /\ pc = "decode" => offset < nemo_num_frames
    /\ pc = "after_loop" =>
         /\ offset = nemo_num_frames
         /\ offset = (IF chunks = <<>> THEN 0 ELSE chunks[Len(chunks)].hi)

\* 99 feature frames: a slice of 98 and a slice of one, passed with length 1.
C33_Witness ==
  /\ phase = "nemo_t2"
  /\ nemo_num_frames = ChunkFramesNemo + 1
  /\ enc_aux # NoCall
  /\ enc_aux.length = 1
  /\ Len(chunks) = 2
  /\ chunks[1].hi - chunks[1].lo = ChunkFramesNemo
  /\ chunks[2].lo = ChunkFramesNemo
  /\ chunks[2].hi = nemo_num_frames

\* C34: on 1 .. window_size - 1 samples of audio the three runs of
\* verify_streaming differ: the 1 s run pads the audio to one chunk of
\* chunk_samples and processes it (one feature extraction of 98 frames, one
\* encoder call) and no other; the 2.5 s run leaves its loop without
\* processing a chunk, calling the encoder or the decoder, or producing a
\* token; and the batch run ends in the error raised by feature extraction,
\* before any encoder call, so that the script never completes.
C34_ShortAudioRuns ==
  prog = "verify_streaming" /\ pcm_len \in 1..(window_size - 1) =>
    /\ phase \in VsRuns
    /\ phase = "vs_1s" =>
         /\ Len(chunks) <= 1
         /\ pc # "chunk_loop" \/ offset # 0 =>
              /\ chunks = <<[lo |-> 0, hi |-> pcm_len, len |-> REQUIRED_SAMPLE_RATE]>>
              /\ enc_calls = 1
              /\ num_frames = NumFrames(REQUIRED_SAMPLE_RATE)
         /\ pc = "after_loop" => chunk_idx = 1 /\ offset = REQUIRED_SAMPLE_RATE
         /\ pc # "error"
    /\ phase = "vs_25s" =>
         /\ pc \in {"chunk_loop", "after_loop"}
         /\ chunks = <<>>
         /\ enc_calls = 0
         /\ enc_in = NoCall
         /\ dec = NoCall
         /\ chunk_idx = 0
         /\ all_tokens = <<>>
    /\ phase = "vs_batch" =>
         /\ pc \in {"whole_start", "error"}
         /\ InsufficientAudio(pcm_len)
         /\ enc_calls = 0
         /\ enc_in = NoCall
         /\ dec = NoCall
         /\ all_tokens = <<>>

\* 399 samples: the batch run has ended in the error, after both chunked runs.
C34_Witness ==
  /\ prog = "verify_streaming"
  /\ pcm_len = window_size - 1
  /\ phase = "vs_batch"
  /\ pc = "error"
  /\ enc_calls = 0

\* C35: every encoder call made through run_encoder without speaker-target
\* vectors, for the whole audio or for a chunk of the stream, is handed
\* spk_targets and bg_spk_targets that are all zero and have as many elements
\* as the num_frames of that same call, which is also the length it passes.
C35_ZeroSpeakerTargets ==
  phase \in {"df2_t1", "df2_t2"} /\ enc_aux # NoCall =>
    /\ enc_aux.length = num_frames
    /\ enc_aux.spk_targets # None
    /\ enc_aux.spk_targets.zero
    /\ enc_aux.spk_targets.len = num_frames
    /\ enc_aux.bg_spk_targets # None
    /\ enc_aux.bg_spk_targets.zero
    /\ enc_aux.bg_spk_targets.len = num_frames

\* The encoder call of the second chunk of TEST 2's stream.
C35_Witness ==
  /\ phase = "df2_t2"
  /\ enc_aux # NoCall
  /\ enc_calls = 2
  /\ offset = REQUIRED_SAMPLE_RATE
  /\ enc_aux.spk_targets = Zeros(num_frames)
  /\ enc_aux.bg_spk_targets = Zeros(num_frames)

====
